---- MODULE Spec2Model ----
(***************************************************************************)
(* Voice diary: the record -> transcribe -> extract -> persist pipeline of *)
(* app/api/process/route.ts (two copies: the one that trusts the form's    *)
(* user_id and the one that derives the owner from the session), the       *)
(* record query and record update endpoints, and the daily_logs table they *)
(* share.                                                                  *)
(***************************************************************************)
EXTENDS Integers, Sequences, FiniteSets, TLC

VARIABLES
    store,      \* the daily_logs table: a set of rows
    nextId,     \* next server-assigned row id; also the logical insert time
    procImpl,   \* which copy of app/api/process/route.ts is deployed
    reqs,       \* the process requests in flight, one per connection
    overlap,    \* history: the two current process requests were in flight together
    applied,    \* history: per (owner, logDate), what the last applied upsert carried
    resp,       \* the last response of an endpoint or page query
    wire,       \* history: the upstream answers the request under study received
    page,       \* the recorder page (app/page.tsx) in the browser
    view,       \* what the logs view (app/dashboard/logs/page.tsx) rendered last
    clock       \* the host's clock and what todayInIST returned for it

vars == <<store, nextId, procImpl, reqs, overlap, applied, resp, wire, page, view, clock>>

(***************************************************************************)
(* Bounds and input sets.                                                  *)
(***************************************************************************)
MaxRows == 2
MaxDate == 2

Users == {"u1", "u2"}
Dates == 1 .. MaxDate
Slots == {"a", "b"}
Nil == "nil"

\* process.env.DEFAULT_USER_ID
DEFAULT_USER_ID == "u1"

\* Authorization headers a caller can send, and the user the auth service
\* resolves each to (supabase.auth.getUser / auth.uid() of the row policy).
AuthHeaders == {"", "Bearer jwt-u1", "Bearer jwt-u2"}

getUser(authHeader) ==
    CASE authHeader = "Bearer jwt-u1" -> "u1"
      [] authHeader = "Bearer jwt-u2" -> "u2"
      [] OTHER -> Nil

(***************************************************************************)
(* The daily_logs table.                                                   *)
(***************************************************************************)
Ids(s) == { r.id : r \in s }

RowsOf(s, owner, logDate) ==
    { r \in s : r.user_id = owner /\ r.log_date = logDate }

\* Row-level policy of daily_logs: a service-role client sees every row,
\* a client carrying a user's JWT sees that user's rows, an anonymous
\* client sees none.
Visible(role, row) ==
    \/ role = "service"
    \/ role \in Users /\ row.user_id = role

\* .upsert({user_id, log_date, transcript, extracted},
\*         {onConflict: "user_id,log_date"}): insert, or on a conflict on the
\* composite key set the supplied columns of the existing row.
UpsertStale(s, id, userId, logDate, transcript, extracted) ==
    IF RowsOf(s, userId, logDate) # {} THEN s
    ELSE s \cup { [id |-> id, user_id |-> userId, log_date |-> logDate,
                   transcript |-> transcript, extracted |-> extracted,
                   created_at |-> id] }

UpsertReplace(s, id, userId, logDate, transcript, extracted) ==
    (s \ RowsOf(s, userId, logDate))
        \cup { [id |-> id, user_id |-> userId, log_date |-> logDate,
                transcript |-> transcript, extracted |-> extracted,
                created_at |-> id] }

UpsertHalf(s, id, userId, logDate, transcript, extracted) ==
    IF RowsOf(s, userId, logDate) # {}
    THEN { IF r.user_id = userId /\ r.log_date = logDate
           THEN [r EXCEPT !.extracted = extracted]
           ELSE r : r \in s }
    ELSE s \cup { [id |-> id, user_id |-> userId, log_date |-> logDate,
                   transcript |-> transcript, extracted |-> extracted,
                   created_at |-> id] }

UpsertKeepPayload(s, id, userId, logDate, transcript, extracted) ==
    IF RowsOf(s, userId, logDate) # {}
    THEN { IF r.user_id = userId /\ r.log_date = logDate
           THEN [r EXCEPT !.transcript = transcript]
           ELSE r : r \in s }
    ELSE s \cup { [id |-> id, user_id |-> userId, log_date |-> logDate,
                   transcript |-> transcript, extracted |-> extracted,
                   created_at |-> id] }

upsert(s, id, userId, logDate, transcript, extracted) ==
    IF RowsOf(s, userId, logDate) # {}
    THEN { IF r.user_id = userId /\ r.log_date = logDate
           THEN [r EXCEPT !.transcript = transcript, !.extracted = extracted]
           ELSE r : r \in s }
    ELSE s \cup { [id |-> id, user_id |-> userId, log_date |-> logDate,
                   transcript |-> transcript, extracted |-> extracted,
                   created_at |-> id] }

\* The upsert inserts a row (and so consumes an id) iff the key is free.
Inserts(s, userId, logDate) == RowsOf(s, userId, logDate) = {}


(***************************************************************************)
(* JavaScript values as far as the handlers look at them: a value carries  *)
(* its type tag, so that ?., ??, || and truthiness act as in the code.     *)
(***************************************************************************)
JUndef == [t |-> "undefined"]
JFalse == [t |-> "boolean", v |-> FALSE]
JStr(s) == [t |-> "string", v |-> s]
JArr(q) == [t |-> "array", v |-> q]
JChars(q) == [t |-> "chars", v |-> q]

JNull == [t |-> "null"]
JNum(n) == [t |-> "number", v |-> n]
JBool(b) == [t |-> "boolean", v |-> b]
JObj(f) == [t |-> "object", v |-> f]

IsArray(x) == x.t = "array"
Nullish(x) == x.t \in {"undefined", "null"}
Truthy(x) ==
    CASE x.t = "undefined" -> FALSE
      [] x.t = "null" -> FALSE
      [] x.t = "boolean" -> x.v
      [] x.t = "string" -> x.v # ""
      [] x.t = "number" -> x.v # 0
      [] OTHER -> TRUE

(***************************************************************************)
(* transcribeWithDeepgram.  A transcript is a sequence of characters.      *)
(***************************************************************************)
IsSpace(c) == c = " "

RECURSIVE TrimStart(_)
TrimStart(q) ==
    IF q # <<>> /\ IsSpace(Head(q)) THEN TrimStart(Tail(q)) ELSE q

RECURSIVE TrimEnd(_)
TrimEnd(q) ==
    IF q # <<>> /\ IsSpace(q[Len(q)]) THEN TrimEnd(SubSeq(q, 1, Len(q) - 1)) ELSE q

trim(q) == TrimEnd(TrimStart(q))

\* j?.results?.channels?.[0]?.alternatives?.[0]?.transcript: the body of a
\* success response is described by its channels, each a list of alternatives,
\* each alternative holding a transcript or none.
DeepgramPath(j) ==
    IF ~IsArray(j.channels) \/ Len(j.channels.v) = 0 THEN JUndef
    ELSE LET ch == j.channels.v[1]
         IN  IF ~IsArray(ch.alternatives) \/ Len(ch.alternatives.v) = 0 THEN JUndef
             ELSE ch.alternatives.v[1].transcript

TranscriptRaw(j) ==
    LET p == DeepgramPath(j)
    IN  IF Nullish(p) THEN <<>> ELSE p.v

TranscriptOf(j) ==
    LET p == DeepgramPath(j)
    IN  IF Nullish(p) THEN <<>> ELSE trim(p.v)

DgBody(raw) ==
    [channels |-> JArr(<< [alternatives |-> JArr(<< [transcript |-> JChars(raw)] >>)] >>)]

\* Success bodies the transcription service answers with in this model.
DeepgramBodies ==
    { [channels |-> JUndef],
      [channels |-> JArr(<< [alternatives |-> JArr(<<>>)] >>)],
      DgBody(<<" ", "h", "i", " ">>),
      DgBody(<<"h", "i">>) }

(***************************************************************************)
(* extractWithOpenAI.  An optional field of the payload is a set of at     *)
(* most one value: {} when the field is omitted.                           *)
(***************************************************************************)
Obj(sv, mood) == [schema_version |-> sv, mood |-> mood]

\* JSON.parse on the texts of the model: the parsed object, or a throw.
JSONparse(text) ==
    CASE text = "{}" -> [ok |-> TRUE, v |-> Obj({}, {})]
      [] text = "{\"mood\":\"ok\"}" -> [ok |-> TRUE, v |-> Obj({}, {"ok"})]
      [] text = "{\"schema_version\":2,\"mood\":\"ok\"}" -> [ok |-> TRUE, v |-> Obj({2}, {"ok"})]
      [] text = "{\"schema_version\":0,\"mood\":\"ok\"}" -> [ok |-> TRUE, v |-> Obj({0}, {"ok"})]
      [] OTHER -> [ok |-> FALSE, v |-> Obj({}, {})]

\* The text the extraction service generates for a transcript when it works as
\* meant: nothing to extract from silence, a mood from speech.
GeneratedFor(transcript) ==
    IF transcript = <<>> THEN "{}" ELSE "{\"mood\":\"ok\"}"

\* The texts a success body can carry for a transcript: none, one that is not
\* JSON, or the JSON meant.
JSONTexts(transcript) == { "", "not json", GeneratedFor(transcript) }

ValidJSON(text) == JSONparse(text).ok

\* content.find((c) => c?.type === "output_text")?.text
RECURSIVE FindOutputText(_)
FindOutputText(items) ==
    IF items = <<>> THEN JUndef
    ELSE IF Head(items).type = "output_text" THEN Head(items).text
    ELSE FindOutputText(Tail(items))

\* Array.isArray(j?.output) && Array.isArray(j.output[0]?.content) && find(...)?.text
fromOutputArray(j) ==
    IF ~IsArray(j.output) THEN JFalse
    ELSE IF Len(j.output.v) = 0 THEN JFalse
    ELSE IF ~IsArray(j.output.v[1].content) THEN JFalse
    ELSE FindOutputText(j.output.v[1].content.v)

\* typeof j?.output_text === "string" ? j.output_text : ""
TopLevelText(j) == IF j.output_text.t = "string" THEN j.output_text ELSE JStr("")

\* process/route.ts:177-179 joins the two places with ??, the other copy
\* (lines 157-161) with ||.
jsonText(impl, j) ==
    LET a == fromOutputArray(j)
    IN  IF impl = "form"
        THEN (IF Nullish(a) THEN TopLevelText(j) ELSE a)
        ELSE (IF Truthy(a) THEN a ELSE TopLevelText(j))

WithSchemaVersionKept(p) == p

\* if (!parsed.schema_version) parsed.schema_version = 1
WithSchemaVersion(p) ==
    IF p.schema_version = {} \/ p.schema_version = {0}
    THEN [p EXCEPT !.schema_version = {1}]
    ELSE p

\* The value extractWithOpenAI returns for a success body, or a throw.
ParseExtracted(impl, j) ==
    LET text == jsonText(impl, j)
    IN  IF ~Truthy(text) THEN [ok |-> TRUE, v |-> WithSchemaVersion(Obj({}, {}))]
        ELSE LET r == JSONparse(text.v)
             IN  IF r.ok THEN [ok |-> TRUE, v |-> WithSchemaVersion(r.v)]
                 ELSE [ok |-> FALSE, v |-> r.v]

\* The two places a success body of the extraction service can carry text.
OutputWith(items) == JArr(<< [content |-> JArr(items)] >>)
TextItem(text) == [type |-> "output_text", text |-> JStr(text)]
OtherItem == [type |-> "reasoning", text |-> JUndef]

OpenAIBodies(transcript) ==
    { [output |-> OutputWith(<<OtherItem, TextItem(t)>>), output_text |-> JUndef] :
        t \in JSONTexts(transcript) }
    \cup { [output |-> JUndef, output_text |-> JStr(t)] : t \in JSONTexts(transcript) }
    \cup { [output |-> OutputWith(<<OtherItem>>), output_text |-> JStr(t)] :
             t \in JSONTexts(transcript) }
    \cup { [output |-> JUndef, output_text |-> JUndef],
           [output |-> JArr(<<>>), output_text |-> JUndef] }

\* The text the service generated, wherever the body carries it.
GeneratedText(j) ==
    LET a == fromOutputArray(j)
    IN  IF a.t = "string" THEN a.v
        ELSE IF j.output_text.t = "string" THEN j.output_text.v
        ELSE ""


(***************************************************************************)
(* POST /api/process.  "form" is src/app/api/process/route.ts (owner from  *)
(* the form's user_id, service-role client); "session" is the copy in      *)
(* unnamed/part_000 (owner from the caller's JWT, caller-scoped client).   *)
(* A request is suspended at each await: pc names the call it waits for.   *)
(* calls, failedCall and malformed are history: the calls the request has  *)
(* issued, the upstream call that answered with a non-success status, and  *)
(* whether the extraction service generated text that is not JSON.         *)
(***************************************************************************)
ProcImpls == {"form", "session"}

NoPayload == Obj({}, {})

Idle ==
    [pc |-> "idle", userId |-> Nil, logDate |-> 0, transcript |-> <<>>,
     extracted |-> NoPayload, status |-> 0, error |-> "", calls |-> <<>>,
     failedCall |-> "", malformed |-> FALSE]

\* return NextResponse.json({ error }, { status }): nothing of the request survives.
Failed(req, status, error, failedCall) ==
    [Idle EXCEPT !.pc = "done", !.status = status, !.error = error,
                 !.calls = req.calls, !.failedCall = failedCall,
                 !.malformed = req.malformed]

\* return NextResponse.json({ transcript, extracted, row }); of the body the
\* model keeps the row's key.
Succeeded(req) ==
    [Idle EXCEPT !.pc = "done", !.status = 200, !.calls = req.calls,
                 !.userId = req.userId, !.logDate = req.logDate,
                 !.malformed = req.malformed]

InFlight(req) == req.pc \in {"stt", "llm", "auth", "db"}

\* formData(), the audio check, log_date || todayInIST(), and in the "form"
\* copy user_id || DEFAULT_USER_ID; then the transcription call is issued.
Received(impl, hasFile, formLogDate, formUserId, today) ==
    IF ~hasFile
    THEN Failed(Idle, 400, "audio missing", "")
    ELSE [Idle EXCEPT
            !.pc = "stt",
            !.logDate = IF formLogDate = 0 THEN today ELSE formLogDate,
            !.userId = IF impl = "form"
                       THEN (IF formUserId = "" THEN DEFAULT_USER_ID ELSE formUserId)
                       ELSE Nil,
            !.calls = <<"stt">>]

TranscribedSwallow(req, res) ==
    [req EXCEPT !.pc = "llm",
                !.transcript = IF res.ok THEN TranscriptOf(res.body) ELSE <<>>,
                !.failedCall = IF res.ok THEN "" ELSE "stt",
                !.calls = Append(req.calls, "llm")]

\* transcribeWithDeepgram returns or throws; then extractWithOpenAI is called.
Transcribed(req, res) ==
    IF ~res.ok THEN Failed(req, 500, "Deepgram failed", "stt")
    ELSE [req EXCEPT !.pc = "llm", !.transcript = TranscriptOf(res.body),
                     !.calls = Append(req.calls, "llm")]

\* The generated text is there and is not JSON.
Malformed(j) == GeneratedText(j) # "" /\ ~ValidJSON(GeneratedText(j))

ExtractedSwallow(impl, req, res) ==
    LET next == IF impl = "session" THEN "auth" ELSE "db"
    IN  [req EXCEPT !.pc = next,
                    !.extracted = IF res.ok /\ ParseExtracted(impl, res.body).ok
                                  THEN ParseExtracted(impl, res.body).v
                                  ELSE NoPayload,
                    !.calls = Append(req.calls, next)]

\* extractWithOpenAI returns or throws (non-success response, or JSON.parse);
\* then the "session" copy asks for the user, the "form" copy upserts.
Extracted(impl, req, res) ==
    IF ~res.ok THEN Failed(req, 500, "OpenAI failed", "llm")
    ELSE LET out == ParseExtracted(impl, res.body)
             next == IF impl = "session" THEN "auth" ELSE "db"
             seen == [req EXCEPT !.malformed = Malformed(res.body)]
         IN  IF ~out.ok THEN Failed(seen, 500, "SyntaxError", "")
             ELSE [seen EXCEPT !.pc = next, !.extracted = out.v,
                               !.calls = Append(req.calls, next)]

\* supabase.auth.getUser() under the caller's Authorization header.
Authorized(req, authHeader) ==
    IF getUser(authHeader) = Nil THEN Failed(req, 401, "Unauthorized (no session)", "")
    ELSE [req EXCEPT !.pc = "db", !.userId = getUser(authHeader),
                     !.calls = Append(req.calls, "db")]

Pairs == Users \X Dates
NotApplied == [set |-> FALSE, transcript |-> <<>>, extracted |-> NoPayload]
Carried(q) == [set |-> TRUE, transcript |-> q.transcript, extracted |-> q.extracted]

DeepgramResponses ==
    {[ok |-> FALSE, body |-> [channels |-> JUndef]]}
        \cup {[ok |-> TRUE, body |-> b] : b \in DeepgramBodies}

OpenAIResponses(transcript) ==
    {[ok |-> FALSE, body |-> [output |-> JUndef, output_text |-> JUndef]]}
        \cup {[ok |-> TRUE, body |-> b] : b \in OpenAIBodies(transcript)}

OtherSlot(r) == CHOOSE o \in Slots : o # r

POST_receive(r) ==
    /\ reqs[r].pc = "idle"
    /\ \E hasFile \in BOOLEAN, formLogDate \in {0} \cup Dates,
          formUserId \in {""} \cup Users, today \in Dates :
          reqs' = [reqs EXCEPT ![r] = Received(procImpl, hasFile, formLogDate, formUserId, today)]
    /\ overlap' = (overlap \/ (InFlight(reqs'[r]) /\ InFlight(reqs[OtherSlot(r)])))
    /\ UNCHANGED <<store, nextId, procImpl, applied, resp, wire, page, view, clock>>

POST_transcribed(r) ==
    /\ reqs[r].pc = "stt"
    /\ \E res \in DeepgramResponses :
          reqs' = [reqs EXCEPT ![r] = Transcribed(reqs[r], res)]
    /\ UNCHANGED <<store, nextId, procImpl, overlap, applied, resp, wire, page, view, clock>>

POST_extracted(r) ==
    /\ reqs[r].pc = "llm"
    /\ \E res \in OpenAIResponses(reqs[r].transcript) :
          reqs' = [reqs EXCEPT ![r] = Extracted(procImpl, reqs[r], res)]
    /\ UNCHANGED <<store, nextId, procImpl, overlap, applied, resp, wire, page, view, clock>>

POST_authorized(r) ==
    /\ reqs[r].pc = "auth"
    /\ \E authHeader \in AuthHeaders :
          reqs' = [reqs EXCEPT ![r] = Authorized(reqs[r], authHeader)]
    /\ UNCHANGED <<store, nextId, procImpl, overlap, applied, resp, wire, page, view, clock>>

\* The store executes the upsert and answers with the row.
POST_upserted(r) ==
    LET q == reqs[r] IN
    /\ q.pc = "db"
    /\ Inserts(store, q.userId, q.logDate) => nextId <= MaxRows
    /\ store' = upsert(store, nextId, q.userId, q.logDate, q.transcript, q.extracted)
    /\ nextId' = IF Inserts(store, q.userId, q.logDate) THEN nextId + 1 ELSE nextId
    /\ applied' = [applied EXCEPT ![<<q.userId, q.logDate>>] = Carried(q)]
    /\ reqs' = [reqs EXCEPT ![r] = Succeeded(q)]
    /\ UNCHANGED <<procImpl, overlap, resp, wire, page, view, clock>>

\* The store answers the upsert with an error: if (error) throw error.
POST_storeError(r) ==
    /\ reqs[r].pc = "db"
    /\ reqs' = [reqs EXCEPT ![r] = Failed(reqs[r], 500, "store error", "")]
    /\ UNCHANGED <<store, nextId, procImpl, overlap, applied, resp, wire, page, view, clock>>

\* The response has been delivered; the connection takes the next request.
POST_closed(r) ==
    /\ reqs[r].pc = "done"
    /\ reqs' = [reqs EXCEPT ![r] = Idle]
    /\ overlap' = FALSE
    /\ UNCHANGED <<store, nextId, procImpl, applied, resp, wire, page, view, clock>>

NoResp == [op |-> "none"]

\* No upstream answer recorded: dg and llm are sets of at most one response;
\* prior is the payload the row of the request held before its upsert, a set
\* of at most one payload.
NoWire == [dg |-> {}, llm |-> {}, prior |-> {}]

\* useState(null) of result in app/page.tsx; extracted is a set of at most one
\* payload, rowId 0 stands for a result without row.
NoResult == [has |-> FALSE, transcript |-> <<>>, extracted |-> {}, rowId |-> 0]

\* FriendlyEditor is not mounted.
NoEditor == [mounted |-> FALSE, form |-> NoPayload, saving |-> FALSE, msg |-> ""]

\* The recorder page after its first render: the useState / useRef initial
\* values.  pending counts the startRec calls that wait for the microphone,
\* live the recorders that record, stopping the recorders whose onstop is
\* due, timers the intervals that run.  sent is the save in flight, a set of
\* at most one request; patches and saveStatus are history: the update
\* requests the last save has issued and the status it was answered with
\* (0 for a network failure).  raw is the text typed into the raw-JSON
\* textarea, a set of at most one text; empty while the textarea shows its
\* defaultValue or is not on the page.  posts counts the process requests
\* that are sent and not answered.
FreshPage ==
    [session |-> Nil, recording |-> FALSE, busy |-> FALSE, error |-> "",
     chunks |-> 0, durationSec |-> 0, ref |-> FALSE, timerRef |-> FALSE,
     pending |-> 0, live |-> 0, stopping |-> 0, timers |-> 0,
     result |-> NoResult, editor |-> NoEditor,
     sent |-> {}, patches |-> 0, saveStatus |-> 0, raw |-> {}, posts |-> 0]

\* Nothing rendered yet.
NoView == [shown |-> FALSE]

\* todayInIST has not been called.
NoClock == [called |-> FALSE]

Init ==
    /\ store = {}
    /\ nextId = 1
    /\ procImpl \in ProcImpls
    /\ reqs = [r \in Slots |-> Idle]
    /\ overlap = FALSE
    /\ applied = [p \in Pairs |-> NotApplied]
    /\ resp = NoResp
    /\ wire = NoWire
    /\ page = FreshPage
    /\ view = NoView
    /\ clock = NoClock

Next ==
    \E r \in Slots :
        \/ POST_receive(r)
        \/ POST_transcribed(r)
        \/ POST_extracted(r)
        \/ POST_authorized(r)
        \/ POST_upserted(r)
        \/ POST_storeError(r)
        \/ POST_closed(r)

Spec == Init /\ [][Next]_vars


(***************************************************************************)
(* Properties of the pipeline (specification Spec).                        *)
(***************************************************************************)
Range(q) == { q[i] : i \in DOMAIN q }

\* Slot r's upsert is applied in this step.
UpsertApplied(r) ==
    reqs[r].pc = "db" /\ reqs'[r].pc = "done" /\ reqs'[r].status = 200

\* C1: after any sequence of successful submissions the table holds at most
\* one row per (owner, logDate), and where an upsert has been applied for the
\* pair, that row carries the transcript and the extracted payload of the
\* upsert applied last.
C1_OneRowPerPairHoldingLatest ==
    \A p \in Pairs :
        /\ Cardinality(RowsOf(store, p[1], p[2])) <= 1
        /\ applied[p].set =>
             \E row \in RowsOf(store, p[1], p[2]) :
                /\ row.transcript = applied[p].transcript
                /\ row.extracted = applied[p].extracted

\* Two submissions for the same pair have succeeded, the second after the
\* first had been answered, and the table holds one row for the pair.
C1_Witness ==
    /\ reqs["a"].pc = "done" /\ reqs["a"].status = 200
    /\ reqs["b"].pc = "done" /\ reqs["b"].status = 200
    /\ reqs["a"].userId = reqs["b"].userId
    /\ reqs["a"].logDate = reqs["b"].logDate
    /\ ~overlap
    /\ Cardinality(RowsOf(store, reqs["a"].userId, reqs["a"].logDate)) = 1
    /\ Cardinality(store) = 2

\* C3: when the transcription call or the extraction call answers with a
\* non-success status, the request ends there with an error response: the
\* failed call is the last one it issued, the upsert is never issued, and the
\* step leaves the table as it was.
C3_UpstreamFailureAborts ==
    [][\A r \in Slots :
          (reqs[r].failedCall = "" /\ reqs'[r].failedCall \in {"stt", "llm"}) =>
             /\ reqs'[r].pc = "done"
             /\ reqs'[r].status = 500
             /\ reqs'[r].calls # <<>>
             /\ reqs'[r].calls[Len(reqs'[r].calls)] = reqs'[r].failedCall
             /\ "db" \notin Range(reqs'[r].calls)
             /\ store' = store /\ nextId' = nextId]_vars

\* The extraction call of a request failed while the table holds a row that
\* an earlier submission wrote.
C3_Witness ==
    \E r \in Slots :
        /\ reqs[r].pc = "done" /\ reqs[r].failedCall = "llm"
        /\ reqs[r].status = 500
        /\ store # {}

\* C4: when the extraction service answers with success and generated text
\* that is not JSON, the request ends with an error response and never issues
\* the upsert.
C4_MalformedJsonAborts ==
    \A r \in Slots :
        reqs[r].malformed =>
            /\ reqs[r].pc = "done"
            /\ reqs[r].status = 500
            /\ "db" \notin Range(reqs[r].calls)

\* C7: an upsert that hits an existing row for its (owner, logDate) leaves
\* that row's id, owner, logDate and createdAt as they were, and leaves every
\* other row untouched.
C7_UpsertKeepsIdentity ==
    [][\A r \in Slots : \A row \in store :
          (/\ UpsertApplied(r)
           /\ row.user_id = reqs[r].userId
           /\ row.log_date = reqs[r].logDate) =>
             /\ \E new \in store' :
                   /\ new.id = row.id
                   /\ new.user_id = row.user_id
                   /\ new.log_date = row.log_date
                   /\ new.created_at = row.created_at
                   /\ new.transcript = reqs[r].transcript
                   /\ new.extracted = reqs[r].extracted
                   /\ store' \ {new} = store \ {row}
             /\ nextId' = nextId]_vars

\* A second row has been inserted since the first, and the first, still with
\* its id and createdAt, carries a transcript and payload written by a later
\* submission for its pair.
C7_Witness ==
    \E row \in store : \E r \in Slots :
        /\ row.id = 1 /\ row.created_at = 1 /\ nextId = 3
        /\ reqs[r].pc = "done" /\ reqs[r].status = 200
        /\ reqs[r].userId = row.user_id /\ reqs[r].logDate = row.log_date
        /\ reqs[OtherSlot(r)].pc = "done" /\ reqs[OtherSlot(r)].status = 200
        /\ reqs[OtherSlot(r)].userId = row.user_id
        /\ reqs[OtherSlot(r)].logDate = row.log_date

\* C9: when the two submissions were in flight together, each applied upsert
\* leaves exactly one row for its pair, and both the transcript and the
\* extracted payload of that row are those of the submission whose upsert was
\* just applied.
C9_ConcurrentLastWriterWins ==
    [][\A r \in Slots :
          (overlap /\ UpsertApplied(r)) =>
             \E row \in store' :
                /\ RowsOf(store', reqs[r].userId, reqs[r].logDate) = {row}
                /\ row.transcript = reqs[r].transcript
                /\ row.extracted = reqs[r].extracted]_vars

\* Both submissions were in flight together, both succeeded for the same
\* pair, and the pair has one row.
C9_Witness ==
    /\ overlap
    /\ reqs["a"].pc = "done" /\ reqs["a"].status = 200
    /\ reqs["b"].pc = "done" /\ reqs["b"].status = 200
    /\ reqs["a"].userId = reqs["b"].userId
    /\ reqs["a"].logDate = reqs["b"].logDate
    /\ Cardinality(RowsOf(store, reqs["a"].userId, reqs["a"].logDate)) = 1


(***************************************************************************)
(* One process request at a time on connection "a", over every shape of    *)
(* answer of the two upstream services (specification SpecRun).  wire      *)
(* keeps the answers the request received.                                 *)
(***************************************************************************)
MaxRunRows == 1

MoodText == "{\"mood\":\"ok\"}"
VersionedText == "{\"schema_version\":2,\"mood\":\"ok\"}"

\* Success bodies of the transcription service: every element of the path
\* results.channels[0].alternatives[0].transcript present or absent, a
\* transcript that is empty or blank, and a second alternative.
MoreDeepgramBodies ==
    DeepgramBodies \cup
    { [channels |-> JArr(<<>>)],
      [channels |-> JArr(<< [alternatives |-> JUndef] >>)],
      [channels |-> JArr(<< [alternatives |-> JArr(<< [transcript |-> JUndef] >>)] >>)],
      [channels |-> JArr(<< [alternatives |->
          JArr(<< [transcript |-> JChars(<<"h", "i", " ">>)],
                  [transcript |-> JChars(<<"n", "o">>)] >>)] >>)],
      DgBody(<<>>),
      DgBody(<<" ">>) }

MoreDeepgramResponses ==
    {[ok |-> FALSE, body |-> [channels |-> JUndef]]}
        \cup {[ok |-> TRUE, body |-> b] : b \in MoreDeepgramBodies}

\* Success bodies of the extraction service: the generated text in the output
\* array, at the top level, in both places, or in neither.
AllJSONTexts == { "", "not json", "{}", MoodText, VersionedText }

MoreOpenAIBodies ==
    { [output |-> OutputWith(<<OtherItem, TextItem(t)>>), output_text |-> JUndef] :
        t \in AllJSONTexts }
    \cup { [output |-> JUndef, output_text |-> JStr(t)] : t \in AllJSONTexts }
    \cup { [output |-> OutputWith(<<OtherItem>>), output_text |-> JStr(t)] :
             t \in AllJSONTexts }
    \cup { [output |-> OutputWith(<<TextItem("")>>), output_text |-> JStr(MoodText)],
           [output |-> OutputWith(<<TextItem(MoodText)>>), output_text |-> JStr(VersionedText)],
           [output |-> JUndef, output_text |-> JUndef],
           [output |-> JArr(<<>>), output_text |-> JUndef] }

MoreOpenAIResponses ==
    {[ok |-> FALSE, body |-> [output |-> JUndef, output_text |-> JUndef]]}
        \cup {[ok |-> TRUE, body |-> b] : b \in MoreOpenAIBodies}

Run_transcribed ==
    /\ reqs["a"].pc = "stt"
    /\ \E res \in MoreDeepgramResponses :
          /\ reqs' = [reqs EXCEPT !["a"] = Transcribed(reqs["a"], res)]
          /\ wire' = [wire EXCEPT !.dg = {res}]
    /\ UNCHANGED <<store, nextId, procImpl, overlap, applied, resp, page, view, clock>>

Run_extracted ==
    /\ reqs["a"].pc = "llm"
    /\ \E res \in MoreOpenAIResponses :
          /\ reqs' = [reqs EXCEPT !["a"] = Extracted(procImpl, reqs["a"], res)]
          /\ wire' = [wire EXCEPT !.llm = {res}]
    /\ UNCHANGED <<store, nextId, procImpl, overlap, applied, resp, page, view, clock>>

Run_upserted ==
    LET q == reqs["a"] IN
    /\ q.pc = "db"
    /\ Inserts(store, q.userId, q.logDate) => nextId <= MaxRunRows
    /\ store' = upsert(store, nextId, q.userId, q.logDate, q.transcript, q.extracted)
    /\ nextId' = IF Inserts(store, q.userId, q.logDate) THEN nextId + 1 ELSE nextId
    /\ applied' = [applied EXCEPT ![<<q.userId, q.logDate>>] = Carried(q)]
    /\ reqs' = [reqs EXCEPT !["a"] = Succeeded(q)]
    /\ wire' = [wire EXCEPT !.prior = { r.extracted : r \in RowsOf(store, q.userId, q.logDate) }]
    /\ UNCHANGED <<procImpl, overlap, resp, page, view, clock>>

\* The response has been delivered; the answers kept for it are dropped.
Run_closed ==
    /\ reqs["a"].pc = "done"
    /\ reqs' = [reqs EXCEPT !["a"] = Idle]
    /\ wire' = NoWire
    /\ UNCHANGED <<store, nextId, procImpl, overlap, applied, resp, page, view, clock>>

NextRun ==
    \/ POST_receive("a")
    \/ Run_transcribed
    \/ Run_extracted
    \/ POST_authorized("a")
    \/ Run_upserted
    \/ POST_storeError("a")
    \/ Run_closed

SpecRun == Init /\ [][NextRun]_vars


(***************************************************************************)
(* The endpoints and page queries one call at a time (specification        *)
(* SpecApi): a whole POST /api/process, PATCH /api/logs/[id], GET          *)
(* /api/logs, and the two dashboard pages' own queries.  resp is the       *)
(* response of the call just made.                                         *)
(***************************************************************************)
\* The role the store sees for an Authorization header.
RoleOf(authHeader) ==
    IF getUser(authHeader) = Nil THEN "anon" ELSE getUser(authHeader)

OwnerOfId(s, id) ==
    IF id \in Ids(s) THEN (CHOOSE r \in s : r.id = id).user_id ELSE Nil

\* The forms a caller can post.
AllForms ==
    [hasFile : BOOLEAN, formLogDate : {0} \cup Dates,
     formUserId : {""} \cup Users, today : Dates]

\* One whole run of POST up to the upsert: the steps above, in order, over
\* the forms given, every answer of the two services and the caller's header.
RunsFrom(impl, authHeader, forms) ==
    LET received == { Received(impl, f.hasFile, f.formLogDate, f.formUserId, f.today) :
                        f \in forms }
        transcribed == UNION { IF q.pc = "stt"
                               THEN { Transcribed(q, dg) : dg \in DeepgramResponses }
                               ELSE {q} : q \in received }
        extracted == UNION { IF q.pc = "llm"
                             THEN { Extracted(impl, q, llm) :
                                      llm \in OpenAIResponses(q.transcript) }
                             ELSE {q} : q \in transcribed }
    IN  { IF q.pc = "auth" THEN Authorized(q, authHeader) ELSE q : q \in extracted }

Runs(impl, authHeader) == RunsFrom(impl, authHeader, AllForms)

\* What a run hands to the store, or answers without reaching it; the store
\* then executes the upsert (storeOk) or answers with an error.
Outcome(q, storeOk) ==
    IF q.pc = "db"
    THEN [written |-> storeOk, userId |-> q.userId, logDate |-> q.logDate,
          transcript |-> q.transcript, extracted |-> q.extracted,
          status |-> IF storeOk THEN Succeeded(q).status
                     ELSE Failed(q, 500, "store error", "").status]
    ELSE [written |-> FALSE, userId |-> q.userId, logDate |-> q.logDate,
          transcript |-> q.transcript, extracted |-> q.extracted,
          status |-> q.status]

Outcomes ==
    [impl \in ProcImpls, authHeader \in AuthHeaders |->
        { Outcome(q, storeOk) : q \in Runs(impl, authHeader), storeOk \in BOOLEAN }]

\* applied is the history of the interleaved steps of Spec; it is not kept here.
POST ==
    \E authHeader \in AuthHeaders :
      \E o \in Outcomes[procImpl, authHeader] :
        /\ o.written /\ Inserts(store, o.userId, o.logDate) => nextId <= MaxRows
        /\ store' = IF o.written
                    THEN upsert(store, nextId, o.userId, o.logDate,
                                o.transcript, o.extracted)
                    ELSE store
        /\ nextId' = IF o.written /\ Inserts(store, o.userId, o.logDate)
                     THEN nextId + 1 ELSE nextId
        /\ resp' = [op |-> "POST", auth |-> authHeader, status |-> o.status,
                    userId |-> IF o.written THEN o.userId ELSE Nil,
                    logDate |-> IF o.written THEN o.logDate ELSE 0]
        /\ UNCHANGED <<procImpl, reqs, overlap, applied, wire, page, view, clock>>

\* .update({ extracted }).eq("id", id) under a role: the visible rows with
\* that id get the payload; matching no row is not an error of the store.
UpdateOrInsert(s, role, id, extracted) ==
    IF \E r \in s : r.id = id
    THEN { IF r.id = id /\ Visible(role, r) THEN [r EXCEPT !.extracted = extracted]
           ELSE r : r \in s }
    ELSE s \cup { [id |-> id, user_id |-> DEFAULT_USER_ID, log_date |-> 1,
                   transcript |-> <<>>, extracted |-> extracted, created_at |-> id] }

UpdateWholeRow(s, role, id, extracted) ==
    { IF r.id = id /\ Visible(role, r)
      THEN [r EXCEPT !.extracted = extracted, !.transcript = <<>>]
      ELSE r : r \in s }

update(s, role, id, extracted) ==
    { IF r.id = id /\ Visible(role, r) THEN [r EXCEPT !.extracted = extracted]
      ELSE r : r \in s }

Matched(s, role, id) == { r \in s : r.id = id /\ Visible(role, r) }

\* "anon" is the first PATCH of src/app/api/logs/[id]/route.ts (module-level
\* client, anon key, .select().single()); "caller" is the second (client
\* carrying the request's Authorization header, no select).
PatchImpls == {"anon", "caller"}
PatchPayloads == { Obj({1}, {"edited"}) }
PatchIds == 1 .. (MaxRows + 1)

PatchRole(impl, authHeader) == IF impl = "anon" THEN "anon" ELSE RoleOf(authHeader)

\* The status PATCH answers with: a body that is not JSON makes req.json()
\* throw; an error of the store is 400; .single() is an error unless exactly
\* one row comes back.
PatchStatus(impl, bodyOk, storeOk, hit) ==
    IF ~bodyOk THEN 500
    ELSE IF ~storeOk THEN 400
    ELSE IF impl = "anon" /\ Cardinality(hit) # 1 THEN 400
    ELSE 200

PATCH ==
    \E impl \in PatchImpls, id \in PatchIds, authHeader \in AuthHeaders,
       bodyOk \in BOOLEAN, storeOk \in BOOLEAN, extracted \in PatchPayloads :
        LET role == PatchRole(impl, authHeader)
            sent == bodyOk /\ storeOk
        IN  /\ store' = IF sent THEN update(store, role, id, extracted) ELSE store
            /\ resp' = [op |-> "PATCH", impl |-> impl, id |-> id, auth |-> authHeader,
                        role |-> role,
                        status |-> PatchStatus(impl, bodyOk, storeOk, Matched(store, role, id)),
                        target |-> OwnerOfId(store, id),
                        changed |-> store' # store]
            /\ UNCHANGED <<nextId, procImpl, reqs, overlap, applied, wire, page, view, clock>>

\* .gte("log_date", from).lte("log_date", to) under a role.
SelectOpen(s, role, from, to) ==
    { r \in s : Visible(role, r) /\ r.log_date > from /\ r.log_date < to }

select(s, role, from, to) ==
    { r \in s : Visible(role, r) /\ r.log_date >= from /\ r.log_date <= to }

\* .order("log_date", { ascending })
RECURSIVE order(_, _)
order(rows, ascending) ==
    IF rows = {} THEN <<>>
    ELSE LET first == CHOOSE x \in rows : \A y \in rows :
                         IF ascending THEN x.log_date <= y.log_date
                         ELSE x.log_date >= y.log_date
         IN  <<first>> \o order(rows \ {first}, ascending)

\* .select("*") and .select("log_date, extracted")
Columns(op, r) ==
    IF op = "load" THEN [log_date |-> r.log_date, extracted |-> r.extracted] ELSE r

Shown(op, q) == [i \in DOMAIN q |-> Columns(op, q[i])]

GetAnswerQueryFirst(s, role, from, to, storeOk) ==
    [op |-> "GET", role |-> role, from |-> from, to |-> to,
     status |-> IF from = 0 \/ to = 0 \/ ~storeOk THEN 400 ELSE 200,
     queried |-> TRUE,
     rows |-> IF from = 0 \/ to = 0 \/ ~storeOk THEN <<>>
              ELSE Shown("GET", order(select(s, role, from, to), TRUE))]

\* What GET answers: 400 before any query when a bound is missing, 400 when
\* the store answers the query with an error, else the rows ascending.
\* queried is history: the query was sent to the store.
GetAnswer(s, role, from, to, storeOk) ==
    IF from = 0 \/ to = 0
    THEN [op |-> "GET", role |-> role, from |-> from, to |-> to, status |-> 400,
          queried |-> FALSE, rows |-> <<>>]
    ELSE IF ~storeOk
    THEN [op |-> "GET", role |-> role, from |-> from, to |-> to, status |-> 400,
          queried |-> TRUE, rows |-> <<>>]
    ELSE [op |-> "GET", role |-> role, from |-> from, to |-> to, status |-> 200,
          queried |-> TRUE,
          rows |-> Shown("GET", order(select(s, role, from, to), TRUE))]

\* GET /api/logs?from=&to= ; 0 stands for a bound that is not given.
GET ==
    \E authHeader \in AuthHeaders, from \in {0} \cup Dates, to \in {0} \cup Dates :
      \E storeOk \in IF from = 0 \/ to = 0 THEN {TRUE} ELSE BOOLEAN :
        /\ resp' = GetAnswer(store, RoleOf(authHeader), from, to, storeOk)
        /\ UNCHANGED <<store, nextId, procImpl, reqs, overlap, applied, wire, page, view, clock>>

\* fetchLogs of src/app/dashboard/logs/page.tsx, signed in as user.
fetchLogs ==
    \E user \in Users, from \in Dates, to \in Dates :
        /\ resp' = [op |-> "fetchLogs", role |-> user, from |-> from, to |-> to,
                    status |-> 200,
                    rows |-> Shown("fetchLogs", order(select(store, user, from, to), FALSE))]
        /\ UNCHANGED <<store, nextId, procImpl, reqs, overlap, applied, wire, page, view, clock>>

\* load of src/app/dashboard/page.tsx, signed in as user.
load ==
    \E user \in Users, from \in Dates, to \in Dates :
        /\ resp' = [op |-> "load", role |-> user, from |-> from, to |-> to,
                    status |-> 200,
                    rows |-> Shown("load", order(select(store, user, from, to), TRUE))]
        /\ UNCHANGED <<store, nextId, procImpl, reqs, overlap, applied, wire, page, view, clock>>

\* Authorization: `Bearer ${session.access_token}` of a signed-in user.
TokenOf(user) == IF user = "u1" THEN "Bearer jwt-u1" ELSE "Bearer jwt-u2"

\* json.rows ?? [] on the body GET answered with: { data } on success.
RowsOfBody(body) ==
    IF "rows" \in DOMAIN body THEN body.rows ELSE <<>>

\* fetchLogs of src/app/api/logs/page.tsx, signed in as user: the list page
\* that loads through GET /api/logs.  received is history, the records the
\* endpoint answered with; rows is the page's rows state after the call,
\* which a failed call leaves as it was.  from and to are the values of the
\* two date inputs.
LogsPage_fetchLogs ==
    \E user \in Users, from \in Dates, to \in Dates, storeOk \in BOOLEAN :
        LET ans == GetAnswer(store, RoleOf(TokenOf(user)), from, to, storeOk)
            before == IF resp.op = "LogsPage_fetchLogs" THEN resp.rows ELSE <<>>
        IN  /\ resp' = [op |-> "LogsPage_fetchLogs", role |-> ans.role,
                        from |-> from, to |-> to, status |-> ans.status,
                        received |-> ans.rows,
                        rows |-> IF ans.status = 200
                                 THEN RowsOfBody([data |-> ans.rows])
                                 ELSE before]
            /\ UNCHANGED <<store, nextId, procImpl, reqs, overlap, applied, wire, page, view, clock>>

NextApi == POST \/ PATCH \/ GET \/ fetchLogs \/ load \/ LogsPage_fetchLogs

SpecApi == Init /\ [][NextApi]_vars


(***************************************************************************)
(* Properties of the endpoints (specification SpecApi).                    *)
(***************************************************************************)
\* C2: every row the process endpoint writes is owned by the user the
\* caller's credential resolves to.
C2_OwnerIsCaller ==
    (resp.op = "POST" /\ resp.status = 200) => resp.userId = getUser(resp.auth)

\* C5: an update whose id matches no stored row is answered with an error
\* and changes no row.
C5_UnknownIdFails ==
    (resp.op = "PATCH" /\ resp.target = Nil) => (resp.status >= 400 /\ ~resp.changed)

\* C6: an update of a row the caller does not own is answered with an
\* error, changes nothing, and is evaluated under the caller's credential.
C6_ForeignRowFails ==
    (resp.op = "PATCH" /\ resp.target \in Users /\ resp.target # getUser(resp.auth)) =>
        /\ resp.status >= 400
        /\ ~resp.changed
        /\ resp.role = RoleOf(resp.auth)

\* C8: a record query answers with exactly the rows visible to the caller
\* whose log_date d has from <= d <= to, each once.
C8_RangeIsInclusive ==
    (resp.op \in {"GET", "fetchLogs", "load"} /\ resp.status = 200) =>
        LET want == { r \in store : /\ Visible(resp.role, r)
                                   /\ resp.from <= r.log_date
                                   /\ r.log_date <= resp.to }
        IN  /\ Range(resp.rows) = { Columns(resp.op, r) : r \in want }
            /\ Len(resp.rows) = Cardinality(want)

\* The caller owns a row dated before the interval and a row dated exactly
\* from = to; the answer is the second row alone.
C8_Witness ==
    /\ resp.op \in {"GET", "fetchLogs", "load"} /\ resp.status = 200
    /\ resp.from = resp.to
    /\ Len(resp.rows) = 1
    /\ resp.rows[1].log_date = resp.from
    /\ \E r \in store : Visible(resp.role, r) /\ r.log_date < resp.from

\* C10: no step removes a row id from the table, and an update by id adds
\* none.
C10_NoRowRemoved ==
    [][/\ Ids(store) \subseteq Ids(store')
       /\ Cardinality(store') >= Cardinality(store)
       /\ resp'.op \in {"PATCH", "GET", "fetchLogs", "load"} =>
             (Ids(store') = Ids(store) /\ Cardinality(store') = Cardinality(store))]_vars

\* An update has changed a row of a table of two rows.
C10_Witness ==
    /\ resp.op = "PATCH" /\ resp.status = 200 /\ resp.changed
    /\ Cardinality(store) = 2 /\ Ids(store) = {1, 2}

(***************************************************************************)
(* Properties of the single request (specification SpecRun).               *)
(***************************************************************************)
\* C11: when the JSON text the extraction service generated parses to a
\* payload without schema_version, the row the request persists carries
\* schema_version 1 and every other field of the parsed payload as parsed.
C11_SchemaVersionDefaultsToOne ==
    \A res \in wire.llm :
        LET q == reqs["a"]
            text == jsonText(procImpl, res.body)
            parsed == JSONparse(IF Truthy(text) THEN text.v ELSE "")
        IN  (/\ res.ok /\ Truthy(text) /\ parsed.ok
             /\ parsed.v.schema_version = {}
             /\ q.pc = "done" /\ q.status = 200) =>
                \E row \in store :
                    /\ RowsOf(store, q.userId, q.logDate) = {row}
                    /\ row.extracted.schema_version = {1}
                    /\ row.extracted.mood = parsed.v.mood

\* The service generated a mood and no schema_version, and the persisted
\* payload is that mood under schema_version 1.
C11_Witness ==
    \E res \in wire.llm : \E row \in store :
        /\ res.ok
        /\ jsonText(procImpl, res.body) = JStr(MoodText)
        /\ reqs["a"].pc = "done" /\ reqs["a"].status = 200
        /\ row.user_id = reqs["a"].userId /\ row.log_date = reqs["a"].logDate
        /\ row.extracted = Obj({1}, {"ok"})

\* The transcript of the first alternative of the first channel of a body, as
\* a set of at most one character sequence.
FirstAlternative(j) ==
    IF j.channels.t # "array" THEN {}
    ELSE IF Len(j.channels.v) = 0 THEN {}
    ELSE IF j.channels.v[1].alternatives.t # "array" THEN {}
    ELSE IF Len(j.channels.v[1].alternatives.v) = 0 THEN {}
    ELSE IF j.channels.v[1].alternatives.v[1].transcript.t # "chars" THEN {}
    ELSE { j.channels.v[1].alternatives.v[1].transcript.v }

\* t is raw without the blanks at its two ends.
IsTrimOf(t, raw) ==
    /\ t = <<>> \/ (t[1] # " " /\ t[Len(t)] # " ")
    /\ \E i \in 0 .. Len(raw), k \in 0 .. Len(raw) :
          /\ i + Len(t) + k = Len(raw)
          /\ \A n \in 1 .. Len(raw) :
                IF n <= i \/ n > i + Len(t) THEN raw[n] = " " ELSE raw[n] = t[n - i]

\* C12: after a success answer of the transcription service the request has
\* gone on to the extraction call, its transcript is the trimmed transcript
\* of the first alternative of the first channel, or empty when the body has
\* no such path, and the row it persists carries that transcript.
C12_TranscriptIsTrimmedFirstAlternative ==
    \A res \in wire.dg :
        LET q == reqs["a"]
            first == FirstAlternative(res.body)
            Right(t) == IF first = {} THEN t = <<>>
                        ELSE \A raw \in first : IsTrimOf(t, raw)
        IN  res.ok =>
              /\ q.failedCall # "stt"
              /\ Len(q.calls) >= 2 /\ q.calls[2] = "llm"
              /\ q.pc \in {"llm", "auth", "db"} => Right(q.transcript)
              /\ (q.pc = "done" /\ q.status = 200) =>
                    \E row \in store :
                        /\ RowsOf(store, q.userId, q.logDate) = {row}
                        /\ Right(row.transcript)

\* A request whose transcription answer had no first alternative has been
\* answered with success and has persisted the empty transcript.
C12_Witness ==
    \E res \in wire.dg : \E row \in store :
        /\ res.ok
        /\ FirstAlternative(res.body) = {}
        /\ reqs["a"].pc = "done" /\ reqs["a"].status = 200
        /\ row.user_id = reqs["a"].userId /\ row.log_date = reqs["a"].logDate
        /\ row.transcript = <<>>

\* The text of the first output_text item of output[0].content of a body, as
\* a set of at most one text.
OutputTextItem(j) ==
    IF j.output.t # "array" THEN {}
    ELSE IF Len(j.output.v) = 0 THEN {}
    ELSE IF j.output.v[1].content.t # "array" THEN {}
    ELSE LET items == j.output.v[1].content.v
             at == { i \in DOMAIN items : items[i].type = "output_text" }
         IN  IF at = {} THEN {}
             ELSE { items[CHOOSE i \in at : \A k \in at : i <= k].text.v }

\* The text a copy of extractWithOpenAI hands to JSON.parse; "" when it
\* parses none.
ParsedText(impl, j) ==
    LET x == jsonText(impl, j) IN IF Truthy(x) THEN x.v ELSE ""

\* C18: for a success answer of the extraction service the text that is
\* parsed is the text of the output_text item of output[0].content when the
\* item exists, else the top-level output_text when that is a string; and
\* the two copies of extractWithOpenAI parse the same text.
C18_SameTextSelected ==
    \A res \in wire.llm :
        LET j == res.body
            item == OutputTextItem(j)
            want == IF item # {} THEN CHOOSE t \in item : TRUE
                    ELSE IF j.output_text.t = "string" THEN j.output_text.v
                    ELSE ""
        IN  res.ok =>
              /\ ParsedText(procImpl, j) = want
              /\ ParsedText("form", j) = ParsedText("session", j)

(***************************************************************************)
(* Further properties of the endpoints (specification SpecApi).            *)
(***************************************************************************)
\* C13: a record query without its from bound or without its to bound is
\* answered with status 400 and sends no query to the store.
C13_MissingBoundRejected ==
    (resp.op = "GET" /\ (resp.from = 0 \/ resp.to = 0)) =>
        (resp.status = 400 /\ ~resp.queried /\ resp.rows = <<>>)

\* A query with from and without to has been rejected while the table holds
\* a row the caller could see.
C13_Witness ==
    /\ resp.op = "GET" /\ resp.from # 0 /\ resp.to = 0
    /\ resp.status = 400 /\ ~resp.queried
    /\ \E r \in store : Visible(resp.role, r)

Descending(q) == \A i \in DOMAIN q, k \in DOMAIN q : i < k => q[i].log_date >= q[k].log_date
Ascending(q) == \A i \in DOMAIN q, k \in DOMAIN q : i < k => q[i].log_date <= q[k].log_date

\* C14: the two list views receive their records with logDate descending,
\* the trend view receives them with logDate ascending.
C14_ListDescendingTrendAscending ==
    /\ (resp.op = "fetchLogs" /\ resp.status = 200) => Descending(resp.rows)
    /\ (resp.op = "LogsPage_fetchLogs" /\ resp.status = 200) => Descending(resp.received)
    /\ (resp.op = "load" /\ resp.status = 200) => Ascending(resp.rows)

\* C19: after a successful load the list page that reads through the record
\* query endpoint shows exactly the records the endpoint answered with.
C19_ListShowsWhatEndpointReturned ==
    (resp.op = "LogsPage_fetchLogs" /\ resp.status = 200) => resp.rows = resp.received

\* C20: an update answered with success leaves the number of rows as it was
\* and leaves every row its id, owner, logDate, transcript and createdAt; a
\* row with another id is left as it was altogether.
C20_UpdateTouchesOnlyExtracted ==
    [][(resp'.op = "PATCH" /\ resp'.status = 200) =>
          /\ Cardinality(store') = Cardinality(store)
          /\ \A row \in store : \E new \in store' :
                /\ new.id = row.id
                /\ new.user_id = row.user_id
                /\ new.log_date = row.log_date
                /\ new.transcript = row.transcript
                /\ new.created_at = row.created_at
                /\ row.id # resp'.id => new = row]_vars

\* An update has replaced the payload of a row that carries a spoken
\* transcript, in a table of two rows.
C20_Witness ==
    /\ resp.op = "PATCH" /\ resp.status = 200 /\ resp.changed
    /\ Cardinality(store) = 2
    /\ \E r \in store :
          /\ r.id = resp.id
          /\ r.transcript = <<"h", "i">>
          /\ r.extracted \in PatchPayloads

(***************************************************************************)
(* The logs view of app/dashboard/logs/page.tsx: what logs.map renders for *)
(* one record (specification SpecView).  A payload is a JavaScript object, *)
(* a function from the keys it has to their values.                        *)
(***************************************************************************)
\* The placeholder and the check mark the card prints, in ASCII.
Dash == "-"
Tick == "v"

\* x?.k, and x.k on an x that is not null or undefined.
Prop(x, k) ==
    IF x.t = "object" /\ k \in DOMAIN x.v THEN x.v[k] ELSE JUndef

ExOfRaw(log) == log.extracted

\* const ex = (log.extracted ?? {}) as Extracted
ExOf(log) == IF Nullish(log.extracted) THEN JObj(<<>>) ELSE log.extracted

\* typeof n === "number" && !Number.isNaN(n) ? n : placeholder; a number
\* that came out of JSON is never NaN.
fmt(n) == IF n.t = "number" THEN n ELSE JStr(Dash)

\* list(xs) and the placeholder under it: the items when xs has a length
\* that is not 0, else no item and the placeholder.
list(xs) == IF xs.t = "array" /\ Len(xs.v) # 0 THEN xs ELSE JStr(Dash)

\* a ?? placeholder, a || placeholder, a ? check mark : placeholder
OrDashIfNullish(a) == IF Nullish(a) THEN JStr(Dash) ELSE a
OrDash(a) == IF Truthy(a) THEN a ELSE JStr(Dash)
TickOrDash(a) == IF Truthy(a) THEN JStr(Tick) ELSE JStr(Dash)

\* The places of the card that show a field of the payload.
ViewSlots ==
    { "mood", "energy", "focus", "sleep_hours", "top_task_done",
      "highlights", "challenges", "gratitude", "todos_tomorrow",
      "yoga", "workout", "no_smoking", "reading_minutes",
      "steps", "water_glasses", "calories", "notes" }

SlotValue(ex, slot) ==
    CASE slot = "mood" -> OrDashIfNullish(Prop(ex, "mood"))
      [] slot \in {"energy", "focus", "sleep_hours"} -> fmt(Prop(ex, slot))
      [] slot = "top_task_done" -> OrDash(Prop(Prop(ex, "work"), "top_task_done"))
      [] slot \in {"highlights", "challenges", "gratitude", "todos_tomorrow"} ->
            list(Prop(ex, slot))
      [] slot \in {"yoga", "workout", "no_smoking"} ->
            TickOrDash(Prop(Prop(ex, "habits"), slot))
      [] slot = "reading_minutes" -> fmt(Prop(Prop(ex, "habits"), slot))
      [] slot \in {"steps", "water_glasses", "calories"} ->
            fmt(Prop(Prop(ex, "health"), slot))
      [] OTHER -> OrDash(Prop(ex, "notes"))

\* The card of one record.  ex.mood on an ex that is null or undefined is a
\* TypeError, which ends the render.
render(log) ==
    LET ex == ExOf(log)
    IN  IF Nullish(ex)
        THEN [threw |-> TRUE, transcript |-> FALSE, slots |-> <<>>]
        ELSE [threw |-> FALSE, transcript |-> Truthy(log.transcript),
              slots |-> [slot \in ViewSlots |-> SlotValue(ex, slot)]]

\* Values of the fields of a payload: as the extraction fills them, and
\* present but empty.
ViewFields ==
    { "mood", "energy", "focus", "sleep_hours", "work", "highlights",
      "challenges", "gratitude", "todos_tomorrow", "habits", "health", "notes" }

FilledField(k) ==
    CASE k \in {"mood", "notes"} -> JStr("ok")
      [] k \in {"energy", "focus", "sleep_hours"} -> JNum(7)
      [] k = "work" -> JObj([top_task_done |-> JStr("ship")])
      [] k = "habits" -> JObj([yoga |-> JBool(TRUE), workout |-> JBool(FALSE),
                               no_smoking |-> JBool(TRUE), reading_minutes |-> JNum(20)])
      [] k = "health" -> JObj([steps |-> JNum(9), water_glasses |-> JNum(8),
                               calories |-> JNum(0)])
      [] OTHER -> JArr(<<JStr("a")>>)

EmptyField(k) ==
    CASE k \in {"mood", "notes"} -> JStr("")
      [] k \in {"energy", "focus", "sleep_hours"} -> JNum(0)
      [] k \in {"work", "habits", "health"} -> JObj(<<>>)
      [] OTHER -> JArr(<<>>)

ViewPayloads ==
    { JNull }
    \cup { JObj([k \in present |-> FilledField(k)]) : present \in SUBSET ViewFields }
    \cup { JObj([k \in present |-> EmptyField(k)]) : present \in SUBSET ViewFields }

ViewLogs ==
    { [transcript |-> t, extracted |-> x] :
        t \in {JNull, JStr("hi")}, x \in ViewPayloads }

\* setLogs has put one record into the logs state; it is not rendered yet.
InitView ==
    /\ store = {}
    /\ nextId = 1
    /\ procImpl \in ProcImpls
    /\ reqs = [r \in Slots |-> Idle]
    /\ overlap = FALSE
    /\ applied = [p \in Pairs |-> NotApplied]
    /\ resp = NoResp
    /\ wire = NoWire
    /\ page = FreshPage
    /\ \E log \in ViewLogs : view = [shown |-> FALSE, log |-> log]
    /\ clock = NoClock

LogsPage_render ==
    /\ ~view.shown
    /\ view' = [shown |-> TRUE, log |-> view.log, out |-> render(view.log)]
    /\ UNCHANGED <<store, nextId, procImpl, reqs, overlap, applied, resp, wire, page, clock>>

NextView == LogsPage_render

SpecView == InitView /\ [][NextView]_vars

\* C16: a record whose extracted payload is null, or an object without any
\* field, is rendered without an error, and every place that shows a scalar,
\* a list, a habit, a health figure or the notes shows the placeholder.
C16_EmptyPayloadRendersPlaceholders ==
    (/\ view.shown
     /\ \/ view.log.extracted.t = "null"
        \/ view.log.extracted.t = "object" /\ DOMAIN view.log.extracted.v = {}) =>
        /\ ~view.out.threw
        /\ \A slot \in ViewSlots : view.out.slots[slot] = JStr(Dash)

\* A record whose payload is null has been rendered, transcript shown.
C16_Witness ==
    /\ view.shown
    /\ view.log.extracted = JNull
    /\ view.log.transcript = JStr("hi")
    /\ view.out.transcript
    /\ ~view.out.threw

(***************************************************************************)
(* The recorder page of app/page.tsx in one browser, with the process and  *)
(* update endpoints behind it (specification SpecPage).  A handler that    *)
(* awaits is two steps: up to the await, and from the answer on.           *)
(***************************************************************************)
MaxPending == 2
MaxRecorders == 2
MaxChunks == 1
MaxTicks == 1

\* The user of this browser, and the value of the date input.
PageUser == "u1"
PageLogDate == 1

\* What the page puts into error.
MicError == "microphone"
ProcessError == "process"

\* supabase.auth.onAuthStateChange: the user signs in or out.
onAuthStateChange ==
    /\ \E s \in {Nil, PageUser} :
          /\ s # page.session
          /\ page' = [page EXCEPT !.session = s]
    /\ UNCHANGED <<store, nextId, procImpl, reqs, overlap, applied, resp, wire, view, clock>>

\* startRec up to await getUserMedia: the four resets (a null result takes
\* FriendlyEditor and the raw-JSON textarea off the page), then the
\* capability check.
Started(p, hasMic) ==
    LET cleared == [p EXCEPT !.error = "", !.result = NoResult, !.chunks = 0,
                             !.durationSec = 0, !.editor = NoEditor, !.raw = {}]
    IN  IF ~hasMic THEN [cleared EXCEPT !.error = MicError]
        ELSE [cleared EXCEPT !.pending = @ + 1]

\* The Start button is there while recording is false.
startRec ==
    /\ ~page.recording
    /\ page.pending < MaxPending
    /\ \E hasMic \in BOOLEAN : page' = Started(page, hasMic)
    /\ UNCHANGED <<store, nextId, procImpl, reqs, overlap, applied, resp, wire, view, clock>>

\* getUserMedia resolved: new MediaRecorder (which can throw), mr.start(1000),
\* the ref, the flag and the interval.
Granted(p, ctorOk) ==
    IF ~ctorOk THEN [p EXCEPT !.pending = @ - 1, !.error = MicError]
    ELSE [p EXCEPT !.pending = @ - 1, !.live = @ + 1, !.ref = TRUE,
                   !.recording = TRUE, !.timers = @ + 1, !.timerRef = TRUE]

startRec_granted ==
    /\ page.pending > 0
    /\ page.live + page.stopping < MaxRecorders
    /\ page.timers < MaxRecorders
    /\ \E ctorOk \in BOOLEAN : page' = Granted(page, ctorOk)
    /\ UNCHANGED <<store, nextId, procImpl, reqs, overlap, applied, resp, wire, view, clock>>

DeniedSilently(p) == [p EXCEPT !.pending = @ - 1]

\* getUserMedia rejected: catch (err) { setError(...) }
Denied(p) == [p EXCEPT !.pending = @ - 1, !.error = MicError]

startRec_denied ==
    /\ page.pending > 0
    /\ page' = Denied(page)
    /\ UNCHANGED <<store, nextId, procImpl, reqs, overlap, applied, resp, wire, view, clock>>

\* mr.ondataavailable with data of a size that is not 0.
ondataavailable ==
    /\ page.live + page.stopping > 0
    /\ page.chunks < MaxChunks
    /\ page' = [page EXCEPT !.chunks = @ + 1]
    /\ UNCHANGED <<store, nextId, procImpl, reqs, overlap, applied, resp, wire, view, clock>>

\* The interval's callback.
tick ==
    /\ page.timers > 0
    /\ page.durationSec < MaxTicks
    /\ page' = [page EXCEPT !.durationSec = @ + 1]
    /\ UNCHANGED <<store, nextId, procImpl, reqs, overlap, applied, resp, wire, view, clock>>

\* The Stop button is there while recording is true.
stopRec ==
    /\ page.recording
    /\ page' = [page EXCEPT !.live = IF page.ref THEN @ - 1 ELSE @,
                            !.stopping = IF page.ref THEN @ + 1 ELSE @,
                            !.ref = FALSE, !.recording = FALSE]
    /\ UNCHANGED <<store, nextId, procImpl, reqs, overlap, applied, resp, wire, view, clock>>

\* mr.onstop: the tracks of its stream, then the interval timerRef holds.
onstop ==
    /\ page.stopping > 0
    /\ page' = [page EXCEPT !.stopping = @ - 1,
                            !.timers = IF page.timerRef THEN @ - 1 ELSE @,
                            !.timerRef = FALSE]
    /\ UNCHANGED <<store, nextId, procImpl, reqs, overlap, applied, resp, wire, view, clock>>

CanSubmitWhileBusy(p) == p.chunks > 0 /\ p.session # Nil

\* disabled={!chunks.length || busy || !session} of the Process & Save button.
CanSubmit(p) == p.chunks > 0 /\ ~p.busy /\ p.session # Nil

\* processAndSave up to await fetch: the two checks that return with a
\* message, then setBusy(true), setError(null) and the request.
Submitted(p) ==
    IF p.chunks = 0 \/ p.session = Nil THEN [p EXCEPT !.error = ProcessError]
    ELSE [p EXCEPT !.busy = TRUE, !.error = "", !.posts = @ + 1]

processAndSave ==
    /\ CanSubmit(page)
    /\ page' = Submitted(page)
    /\ UNCHANGED <<store, nextId, procImpl, reqs, overlap, applied, resp, wire, view, clock>>

\* The form the page posts: the audio and log_date, no user_id.
PageForms ==
    [hasFile : {TRUE}, formLogDate : {PageLogDate}, formUserId : {""}, today : Dates]

PageOutcomes ==
    [impl \in ProcImpls |->
        { Outcome(q, storeOk) : q \in RunsFrom(impl, TokenOf(PageUser), PageForms),
                                storeOk \in BOOLEAN }]

\* useState(() => ({ schema_version: 1, ..., ...initial })) of FriendlyEditor.
Mounted(initial) ==
    [mounted |-> TRUE,
     form |-> [schema_version |-> IF initial.schema_version = {} THEN {1}
                                  ELSE initial.schema_version,
               mood |-> initial.mood],
     saving |-> FALSE, msg |-> ""]

\* processAndSave from the answer on: setResult(json) on a success response
\* (FriendlyEditor mounts when the result has a row id and keeps its state
\* when it is on the page already), setError otherwise; then busy is false.
Processed(p, ok, transcript, extracted, rowId) ==
    IF ~ok THEN [p EXCEPT !.busy = FALSE, !.posts = @ - 1, !.error = ProcessError]
    ELSE [p EXCEPT !.busy = FALSE, !.posts = @ - 1,
                   !.result = [has |-> TRUE, transcript |-> transcript,
                               extracted |-> {extracted}, rowId |-> rowId],
                   !.editor = IF rowId = 0 THEN NoEditor
                              ELSE IF p.editor.mounted THEN @
                              ELSE Mounted(extracted)]

processAndSave_answered ==
    /\ page.posts > 0
    /\ \/ /\ page' = Processed(page, FALSE, <<>>, NoPayload, 0)
          /\ UNCHANGED <<store, nextId>>
       \/ \E o \in PageOutcomes[procImpl] :
            /\ o.written /\ Inserts(store, o.userId, o.logDate) => nextId <= MaxRows
            /\ store' = IF o.written
                        THEN upsert(store, nextId, o.userId, o.logDate,
                                    o.transcript, o.extracted)
                        ELSE store
            /\ nextId' = IF o.written /\ Inserts(store, o.userId, o.logDate)
                         THEN nextId + 1 ELSE nextId
            /\ page' = Processed(page, o.status = 200, o.transcript, o.extracted,
                                 IF o.written
                                 THEN (CHOOSE r \in store' :
                                          r.user_id = o.userId /\ r.log_date = o.logDate).id
                                 ELSE 0)
    /\ UNCHANGED <<procImpl, reqs, overlap, applied, resp, wire, view, clock>>

\* The texts typed into the raw-JSON textarea: nothing left, text that is not
\* JSON, and an object.
RawTexts == {"", "not json", VersionedText}

RawEditedUnchecked(p, text) ==
    [p EXCEPT !.raw = {text},
              !.result = [@ EXCEPT !.has = TRUE, !.extracted = {JSONparse(text).v}]]

\* onChange of the textarea: setExtracted(JSON.parse(e.target.value || "{}"))
\* inside try, with an empty catch.
RawEdited(p, text) ==
    LET parsed == JSONparse(IF text = "" THEN "{}" ELSE text)
    IN  IF parsed.ok
        THEN [p EXCEPT !.raw = {text},
                       !.result = [@ EXCEPT !.has = TRUE, !.extracted = {parsed.v}]]
        ELSE [p EXCEPT !.raw = {text}]

\* The textarea is on the page while result.extracted is there; the event
\* fires when its text changes.
onChange ==
    /\ page.result.extracted # {}
    /\ \E text \in RawTexts :
          /\ page.raw # {text}
          /\ page' = RawEdited(page, text)
    /\ UNCHANGED <<store, nextId, procImpl, reqs, overlap, applied, resp, wire, view, clock>>

\* A mood button of the form.
setForm ==
    /\ page.editor.mounted
    /\ page.editor.form.mood # {"good"}
    /\ page' = [page EXCEPT !.editor.form.mood = {"good"}]
    /\ UNCHANGED <<store, nextId, procImpl, reqs, overlap, applied, resp, wire, view, clock>>

\* save up to await fetch: the PATCH request with the form as it is now.
\* Save Changes is disabled without token and while saving.  One update
\* request is followed at a time: the next save starts after its answer.
save ==
    /\ page.editor.mounted /\ ~page.editor.saving /\ page.session # Nil
    /\ page.sent = {}
    /\ page' = [page EXCEPT !.editor.saving = TRUE, !.editor.msg = "",
                            !.sent = {[submitted |-> page.editor.form,
                                       rowId |-> page.result.rowId,
                                       auth |-> TokenOf(page.session)]},
                            !.patches = 1]
    /\ UNCHANGED <<store, nextId, procImpl, reqs, overlap, applied, resp, wire, view, clock>>

AfterSaveAlways(p, q, status) ==
    [p EXCEPT !.sent = {}, !.saveStatus = status,
              !.editor = IF @.saving
                         THEN [@ EXCEPT !.saving = FALSE,
                                        !.msg = IF status = 200 THEN "Saved!"
                                                ELSE "Save failed"]
                         ELSE @,
              !.result = [@ EXCEPT !.has = TRUE, !.extracted = {q.submitted}]]

\* save from the answer on: on a success response setMsg("Saved!") and
\* onSaved(form), which is setExtracted(form); otherwise the message of the
\* failure; then saving is false.  The state setters of an editor that has
\* left the page do nothing.
AfterSave(p, q, status) ==
    LET done == [p EXCEPT !.sent = {}, !.saveStatus = status,
                         !.editor = IF @.saving
                                    THEN [@ EXCEPT !.saving = FALSE,
                                                   !.msg = IF status = 200 THEN "Saved!"
                                                           ELSE "Save failed"]
                                    ELSE @]
    IN  IF status = 200
        THEN [done EXCEPT !.result = [@ EXCEPT !.has = TRUE, !.extracted = {q.submitted}]]
        ELSE done

\* The request is lost on the network, or one of the PATCH handlers serves it.
save_answered ==
    /\ \E q \in page.sent :
        \/ /\ page' = AfterSave(page, q, 0)
           /\ store' = store
        \/ \E impl \in PatchImpls, storeOk \in BOOLEAN :
             LET role == PatchRole(impl, q.auth)
             IN  /\ store' = IF storeOk THEN update(store, role, q.rowId, q.submitted)
                             ELSE store
                 /\ page' = AfterSave(page, q,
                               PatchStatus(impl, TRUE, storeOk, Matched(store, role, q.rowId)))
    /\ UNCHANGED <<nextId, procImpl, reqs, overlap, applied, resp, wire, view, clock>>

\* setTimeout(() => setMsg(null), 2000)
clearMsg ==
    /\ page.editor.msg # ""
    /\ page' = [page EXCEPT !.editor.msg = ""]
    /\ UNCHANGED <<store, nextId, procImpl, reqs, overlap, applied, resp, wire, view, clock>>

NextPage ==
    \/ onAuthStateChange
    \/ startRec
    \/ startRec_granted
    \/ startRec_denied
    \/ ondataavailable
    \/ tick
    \/ stopRec
    \/ onstop
    \/ processAndSave
    \/ processAndSave_answered
    \/ setForm
    \/ save
    \/ save_answered
    \/ clearMsg

SpecPage == Init /\ [][NextPage]_vars

(***************************************************************************)
(* Properties of the recorder page (specifications SpecPage and SpecRec).  *)
(***************************************************************************)

\* A call of startRec that fails: the browser has no getUserMedia, or the
\* promise of getUserMedia is rejected.
StartFails ==
    \/ startRec /\ page'.pending = page.pending
    \/ startRec_denied

\* C17: when the browser has no microphone capability or the user denies the
\* permission, startRec leaves a message in error, recording stays false, no
\* recorder and no timer is created, and getUserMedia is not called again.
C17_MicFailureLeavesMessageOnly ==
    [][StartFails =>
          /\ page'.error # ""
          /\ ~page.recording => ~page'.recording
          /\ page'.live = page.live /\ page'.stopping = page.stopping
          /\ page'.ref = page.ref
          /\ page'.timers = page.timers /\ page'.timerRef = page.timerRef
          /\ page'.pending <= page.pending]_vars

\* A failed start has left its message: nothing records, no call is pending.
C17_Witness ==
    /\ page.error = MicError
    /\ ~page.recording /\ ~page.ref /\ ~page.timerRef
    /\ page.live = 0 /\ page.timers = 0 /\ page.pending = 0

\* C15: save issues exactly one update request carrying the form; when the
\* answer is a success the payload of the page is exactly the submitted
\* form, and when it is an error response or a network failure the result
\* of the page is as it was.
C15_SaveReplacesPayloadOnSuccessOnly ==
    [][/\ (page.sent = {} /\ page'.sent # {}) =>
              /\ page'.sent = {[submitted |-> page.editor.form,
                                rowId |-> page.result.rowId,
                                auth |-> TokenOf(page.session)]}
              /\ page'.patches = 1
              /\ page'.result = page.result
       /\ (page.sent # {} /\ page'.sent = {}) =>
              /\ page'.patches = page.patches
              /\ \A q \in page.sent :
                    IF page'.saveStatus = 200
                    THEN /\ page'.result.extracted = {q.submitted}
                         /\ page'.result.transcript = page.result.transcript
                         /\ page'.result.rowId = page.result.rowId
                    ELSE page'.result = page.result]_vars

\* A save of an edited form has succeeded: the payload of the page is the
\* form, and the row holds it too.
C15_Witness ==
    /\ page.saveStatus = 200 /\ page.sent = {} /\ page.patches = 1
    /\ page.editor.mounted
    /\ page.editor.form.mood = {"good"}
    /\ page.result.extracted = {page.editor.form}
    /\ \E r \in store : r.id = page.result.rowId /\ r.extracted = page.editor.form

(***************************************************************************)
(* Properties of the process endpoint's authorization (SpecApi, Spec).     *)
(***************************************************************************)

\* C21: a process request that carries no valid session is answered with
\* an error and writes no record.  The claim names the error (unauthorized);
\* this is the part of it that does not depend on which error is sent.
C21_NoSessionIsRefused ==
    (resp.op = "POST" /\ getUser(resp.auth) = Nil) =>
        (resp.status >= 400 /\ resp.userId = Nil)

\* C27: in the session-derived copy a request without a valid session causes
\* no transcription call and no extraction call: a request answered as
\* unauthorized has issued neither.
C27_AuthorizedBeforeUpstream ==
    \A r \in Slots :
        (procImpl = "session" /\ reqs[r].pc = "done" /\ reqs[r].status = 401) =>
            Range(reqs[r].calls) \cap {"stt", "llm"} = {}

(***************************************************************************)
(* todayInIST, the same function in route.ts, part_000, app/page.tsx and   *)
(* app/dashboard/logs/page.tsx, applied once to a clock reading            *)
(* (specification SpecClock).  Times are milliseconds since the epoch; a   *)
(* calendar date is the number of its day since the epoch.                 *)
(***************************************************************************)
ClockDays == 2
StepMin == 30

istOffsetMin == 330
MsPerMin == 60000
MsPerDay == 86400000

\* new Date(ms).toISOString().slice(0, 10): the UTC calendar date of ms.
ISODate(ms) == ms \div MsPerDay

\* now.getTime() is now; now.getTimezoneOffset() is tz, the minutes the
\* host's zone is behind UTC.
todayInIST(now, tz) ==
    LET utc == now + tz * MsPerMin
        ist == utc + istOffsetMin * MsPerMin
    IN  ISODate(ist)

\* The instants the clock can show, and the hosts' zones: UTC, Asia/Kolkata,
\* America/New_York, Asia/Tokyo, America/Los_Angeles.
Instants ==
    { d * MsPerDay + k * StepMin * MsPerMin :
        d \in 1 .. ClockDays, k \in 0 .. ((1440 \div StepMin) - 1) }
TimezoneOffsets == {0, -330, 300, -540, 480}

InitClock ==
    /\ store = {}
    /\ nextId = 1
    /\ procImpl \in ProcImpls
    /\ reqs = [r \in Slots |-> Idle]
    /\ overlap = FALSE
    /\ applied = [p \in Pairs |-> NotApplied]
    /\ resp = NoResp
    /\ wire = NoWire
    /\ page = FreshPage
    /\ view = NoView
    /\ \E now \in Instants, tz \in TimezoneOffsets :
          clock = [called |-> FALSE, now |-> now, tz |-> tz]

callTodayInIST ==
    /\ ~clock.called
    /\ clock' = [called |-> TRUE, now |-> clock.now, tz |-> clock.tz,
                 today |-> todayInIST(clock.now, clock.tz)]
    /\ UNCHANGED <<store, nextId, procImpl, reqs, overlap, applied, resp, wire, page, view>>

NextClock == callTodayInIST

SpecClock == InitClock /\ [][NextClock]_vars

\* C23: todayInIST returns the calendar date in Asia/Kolkata of the current
\* instant, the date of (UTC instant + 330 minutes), whatever the zone of the
\* host is.
C23_TodayIsTheDateInKolkata ==
    clock.called => clock.today = ISODate(clock.now + istOffsetMin * MsPerMin)

(***************************************************************************)
(* Properties of the order of the stages (specification SpecRun).          *)
(***************************************************************************)
\* The transcribe, extract and persist calls among the calls of a request.
StagesIn(calls) == SelectSeq(calls, LAMBDA c : c \in {"stt", "llm", "db"})

IsPrefix(a, b) == Len(a) <= Len(b) /\ \A i \in 1 .. Len(a) : a[i] = b[i]

\* C22: within one process request the stages run in the order transcribe,
\* extract, persist, each at most once; extraction has started only if the
\* transcription call answered with success, the store write only if the
\* extraction call answered with success and its text parsed; the table
\* changes only in the persist stage; and once the response is there the
\* request does nothing more.
C22_StagesInOrderOneResponse ==
    [][LET q == reqs'["a"] IN
       /\ IsPrefix(StagesIn(q.calls), <<"stt", "llm", "db">>)
       /\ "llm" \in Range(q.calls) => \E res \in wire'.dg : res.ok
       /\ "db" \in Range(q.calls) =>
             \E res \in wire'.llm : res.ok /\ ParseExtracted(procImpl, res.body).ok
       /\ store' # store =>
             /\ reqs["a"].pc = "db" /\ q.pc = "done" /\ q.status = 200
             /\ StagesIn(q.calls) = <<"stt", "llm", "db">>
       /\ reqs["a"].pc = "done" => q = Idle]_vars

\* A request has gone through the three stages and has been answered.
C22_Witness ==
    /\ reqs["a"].pc = "done" /\ reqs["a"].status = 200
    /\ StagesIn(reqs["a"].calls) = <<"stt", "llm", "db">>
    /\ \E row \in store :
          row.user_id = reqs["a"].userId /\ row.log_date = reqs["a"].logDate

(***************************************************************************)
(* Properties of the recorder (specifications SpecPage and SpecRec).       *)
(***************************************************************************)
\* C28: at most one recorder records and at most one elapsed-time interval
\* runs at any moment, also when Start is clicked again while an earlier
\* click waits for the permission; and once Stop has been handled (no
\* recording, no start waiting, no onstop due) no recorder holds the
\* microphone and no interval runs.
C28_OneRecorderOneInterval ==
    /\ page.live <= 1
    /\ page.timers <= 1
    /\ (~page.recording /\ page.pending = 0 /\ page.stopping = 0) =>
           (page.live = 0 /\ page.timers = 0)

(***************************************************************************)
(* The recorder of the page alone, with what the browser guarantees        *)
(* (specification SpecRec): a recorder that was stopped fires its stop     *)
(* event.  Nothing makes the user click or answer the permission prompt.   *)
(***************************************************************************)
NextRec ==
    \/ startRec
    \/ startRec_granted
    \/ startRec_denied
    \/ ondataavailable
    \/ tick
    \/ stopRec
    \/ onstop

SpecRec == Init /\ [][NextRec]_vars /\ WF_vars(onstop)

\* C24: after stopRec on an active recording the recording flag is false,
\* and eventually the tracks of that recording are stopped and no
\* elapsed-time interval runs, unless Start is clicked again before that.
C24_StopReleasesMicAndTimer ==
    /\ [][stopRec => ~page'.recording]_vars
    /\ (~page.recording /\ page.stopping > 0) ~>
          (\/ page.recording \/ page.pending > 0
           \/ (page.stopping = 0 /\ page.timers = 0))

(***************************************************************************)
(* The page of a signed-in user before a recording and once a recording    *)
(* has been made and stopped (states SpecPage reaches), with the raw-JSON  *)
(* textarea and the edit form, and the recorder left alone (specification  *)
(* SpecEdit).  A fetch settles: it is answered or it fails.                *)
(***************************************************************************)
Recorded(n) == [FreshPage EXCEPT !.session = PageUser, !.chunks = n]

InitEdit ==
    /\ store = {}
    /\ nextId = 1
    /\ procImpl \in ProcImpls
    /\ reqs = [r \in Slots |-> Idle]
    /\ overlap = FALSE
    /\ applied = [p \in Pairs |-> NotApplied]
    /\ resp = NoResp
    /\ wire = NoWire
    /\ \E n \in 0 .. MaxChunks : page = Recorded(n)
    /\ view = NoView
    /\ clock = NoClock

NextEdit ==
    \/ onAuthStateChange
    \/ processAndSave
    \/ processAndSave_answered
    \/ onChange
    \/ setForm
    \/ save
    \/ save_answered
    \/ clearMsg

SpecEdit ==
    /\ InitEdit /\ [][NextEdit]_vars
    /\ WF_vars(processAndSave_answered) /\ WF_vars(save_answered)

(***************************************************************************)
(* Properties of the raw-JSON textarea and the edit form (SpecEdit).       *)
(***************************************************************************)
\* C25 as claimed: text typed into the raw-JSON textarea causes no network
\* call; text that is not valid JSON leaves the result of the page as it
\* was, and only well-formed JSON replaces the extracted payload.
C25_OnlyWellFormedJsonReplaces ==
    [][\A text \in RawTexts :
          (page'.raw = {text} /\ page.raw # {text}) =>
             /\ page'.sent = page.sent /\ page'.patches = page.patches
             /\ page'.posts = page.posts /\ store' = store
             /\ IF ValidJSON(text)
                THEN page'.result.extracted = {JSONparse(text).v}
                ELSE page'.result = page.result]_vars

\* C25 as amended: text typed into the raw-JSON textarea causes no network
\* call; well-formed JSON replaces the extracted payload by what it parses
\* to, an emptied textarea replaces it by the empty object, and any other
\* text leaves the result of the page as it was.
C25_MalformedIgnoredEmptyClears ==
    [][\A text \in RawTexts :
          (page'.raw = {text} /\ page.raw # {text}) =>
             /\ page'.sent = page.sent /\ page'.patches = page.patches
             /\ page'.posts = page.posts /\ store' = store
             /\ IF ValidJSON(text)
                THEN page'.result.extracted = {JSONparse(text).v}
                ELSE IF text = ""
                THEN page'.result.extracted = {NoPayload}
                ELSE page'.result = page.result]_vars

\* Text that is not JSON has been typed, and the payload of the page is
\* still the one the server persisted.
C25_Witness ==
    /\ page.raw = {"not json"}
    /\ page.sent = {} /\ page.posts = 0
    /\ \E r \in store : r.id = page.result.rowId /\ page.result.extracted = {r.extracted}

\* C26: when Save is pressed the form reflects the payload the page holds
\* then, changes made through the raw-JSON textarea included: a field that is
\* in the payload has the payload's value in the form unless the user has
\* set it in the form, and schema_version, when the payload has none, has
\* its default.
C26_FormReflectsPayloadAtSave ==
    [][(page.sent = {} /\ page'.sent # {}) =>
          \A q \in page'.sent : \A payload \in page.result.extracted :
             /\ q.submitted.schema_version =
                   (IF payload.schema_version = {} THEN {1} ELSE payload.schema_version)
             /\ (q.submitted.mood # {"good"} /\ payload.mood # {}) =>
                   q.submitted.mood = payload.mood]_vars

\* C30: processAndSave sets busy when it sends its request and sends it only
\* with recorded chunks, with a session and while busy is false, so that at
\* most one request is in flight; every outcome of the request sets busy to
\* false, and busy never stays true for ever.
C30_BusyBracketsTheRequest ==
    /\ [][page'.posts > page.posts =>
             /\ page.chunks > 0 /\ page.session # Nil /\ ~page.busy
             /\ page'.busy /\ page'.posts = 1]_vars
    /\ [][page'.posts < page.posts => ~page'.busy]_vars
    /\ page.busy ~> ~page.busy

\* A request has been answered with an error or has failed on the network,
\* and busy is false again.
C30_Witness ==
    /\ ~page.busy /\ page.posts = 0
    /\ page.error = ProcessError
    /\ page.chunks > 0

(***************************************************************************)
(* Properties of an extraction answer without text (specification SpecRun).*)
(***************************************************************************)
\* A success body carries no generated text: no output_text item or an empty
\* one in output[0].content, and no top-level output_text or an empty one.
NoGeneratedText(j) ==
    /\ OutputTextItem(j) \subseteq {""}
    /\ j.output_text.t = "string" => j.output_text.v = ""

\* C29: when the extraction service answers with success and no generated
\* text in either place, extraction does not fail: the request goes on with
\* the payload {schema_version: 1}, and when it is answered with success the
\* row of its (owner, logDate) holds exactly that payload, whatever the row
\* held before.
C29_NoTextPersistsVersionOnly ==
    \A res \in wire.llm :
        LET q == reqs["a"] IN
        (res.ok /\ NoGeneratedText(res.body)) =>
            /\ q.pc \in {"auth", "db"} => q.extracted = Obj({1}, {})
            /\ q.pc = "done" => q.error \in {"", "Unauthorized (no session)", "store error"}
            /\ (q.pc = "done" /\ q.status = 200) =>
                  \E row \in store :
                      /\ RowsOf(store, q.userId, q.logDate) = {row}
                      /\ row.extracted = Obj({1}, {})

\* The row held a mood, the extraction of a later request for the same pair
\* came back without text, and the row now holds schema_version 1 alone.
C29_Witness ==
    \E res \in wire.llm : \E row \in store :
        /\ res.ok /\ NoGeneratedText(res.body)
        /\ reqs["a"].pc = "done" /\ reqs["a"].status = 200
        /\ wire.prior = {Obj({1}, {"ok"})}
        /\ row.user_id = reqs["a"].userId /\ row.log_date = reqs["a"].logDate
        /\ row.extracted = Obj({1}, {})

====
